---- MODULE Spec2Model ----
(***************************************************************************)
(* Model of the trading application (Django app "App"): the quote fetcher  *)
(* (services.py), the Stock/Trade store with Trade.save's recomputation    *)
(* (models.py), the form validation (forms.py) and the request handlers    *)
(* (views.py).                                                             *)
(*                                                                         *)
(* Money amounts are integers counted in hundredths (a DecimalField with   *)
(* decimal_places=2); percentages and ratios are counted in hundredths as  *)
(* well.  Null stands for Python's None / SQL NULL.                        *)
(***************************************************************************)
EXTENDS Integers, Sequences, FiniteSets, TLC

VARIABLES stocks, nextStockId, trades, nextTradeId, batch, resp

vars == <<stocks, nextStockId, trades, nextTradeId, batch, resp>>

(***************************************************************************)
(* Bounds of the model.                                                    *)
(***************************************************************************)
MaxStocks == 2
MaxTrades == 2

(***************************************************************************)
(* Values.                                                                 *)
(***************************************************************************)
Null == -999999
\* a JSON value that is present but is no number (cannot be stored in a
\* DecimalField)
NonNumeric == -888888

\* Python truthiness of an optional number: None and 0 are falsy
Truthy(v) == v # Null /\ v # 0

Symbols == {"ab", "AB", "CD"}

\* str.upper on the symbols of the model
Upper(s) ==
  CASE s = "ab" -> "AB"
    [] s = "zz" -> "ZZ"
    [] OTHER -> s

\* str.lower on the values of the 'all' parameter
Lower(s) ==
  CASE s = "TRUE" -> "true"
    [] s = "YES" -> "yes"
    [] OTHER -> s

\* the static symbol -> company name table of company_names.py
COMPANY_NAMES == [s \in {"CD"} |-> "Cd Limited"]

COMPANY_NAMES_get(key, default) ==
  IF key \in DOMAIN COMPANY_NAMES THEN COMPANY_NAMES[key] ELSE default

(***************************************************************************)
(* The quote provider's answer to one GET, as requests.get and             *)
(* response.json() present it to fetch_stock_from_psx.                     *)
(*   kind   : "exception" (requests.get raised a RequestException such as  *)
(*            ConnectionError or Timeout) or "response"                    *)
(*   status : the HTTP status code                                         *)
(*   body   : "not_json_re"  response.json() raises requests' own          *)
(*                           JSONDecodeError, a RequestException           *)
(*                           (requests >= 2.27)                            *)
(*            "not_json_ve"  response.json() raises a plain ValueError     *)
(*                           (requests < 2.27)                             *)
(*            "non_object"   valid JSON that is no object (list, string,   *)
(*                           number, null): it has no .get                 *)
(*            "object"       a JSON object                                 *)
(*   success: the value of payload["success"] (FALSE also when missing)    *)
(*   data   : payload["data"]                                              *)
(*     shape "absent"    missing or null                                   *)
(*           "empty"     an empty object {} (falsy)                        *)
(*           "nonobject" a truthy value that is no object ("x", 5, [1])    *)
(*           "object"    an object with the fields below (Null = missing)  *)
(***************************************************************************)
NoFields ==
  [price |-> Null, change |-> Null, changePercent |-> Null,
   volume |-> Null, high |-> Null, low |-> Null]

DataOf(shape, f) ==
  [shape |-> shape, price |-> f.price, change |-> f.change,
   changePercent |-> f.changePercent, volume |-> f.volume,
   high |-> f.high, low |-> f.low]

FieldsFull ==
  [price |-> 120, change |-> 5, changePercent |-> 4,
   volume |-> 1000, high |-> 130, low |-> 110]
FieldsLow ==
  [price |-> 80, change |-> -7, changePercent |-> -8,
   volume |-> Null, high |-> Null, low |-> Null]
FieldsZero == [NoFields EXCEPT !.price = 0]
FieldsNoPrice == [FieldsFull EXCEPT !.price = Null]
FieldsBadPrice == [FieldsFull EXCEPT !.price = NonNumeric]

Answer(kind, status, body, success, data) ==
  [kind |-> kind, status |-> status, body |-> body,
   success |-> success, data |-> data]

OkAnswer(f) == Answer("response", 200, "object", TRUE, DataOf("object", f))

ProviderAnswers ==
     { Answer("exception", 0, "object", FALSE, DataOf("absent", NoFields)) }
  \cup { Answer("response", st, "object", TRUE, DataOf("object", FieldsFull))
         : st \in {404, 500} }
  \cup { Answer("response", 200, b, TRUE, DataOf("object", FieldsFull))
         : b \in {"not_json_re", "not_json_ve", "non_object"} }
  \cup { Answer("response", 200, "object", s, DataOf(sh, f))
         : s \in BOOLEAN, sh \in {"absent", "empty", "nonobject", "object"},
           f \in {FieldsFull, FieldsLow, FieldsZero, FieldsNoPrice,
                  FieldsBadPrice} }

(***************************************************************************)
(* services.py: fetch_stock_from_psx.  The result is                       *)
(*   tag "None"  : the function returned None                              *)
(*   tag "Quote" : it returned the dictionary in the fields                *)
(*   tag "Raise" : an exception left the function (exc names it)           *)
(***************************************************************************)
NoQuote(tag, exc, called) ==
  [tag |-> tag, exc |-> exc, called |-> called, symbol |-> "", name |-> "",
   price |-> Null, change |-> Null, change_percent |-> Null,
   volume |-> Null, high |-> Null, low |-> Null]

fetch_stock_from_psx(symbol, a) ==
  IF symbol = "" THEN NoQuote("None", "", FALSE)
  ELSE IF a.kind = "exception" THEN NoQuote("None", "", TRUE)
  ELSE IF a.status # 200 THEN NoQuote("None", "", TRUE)
  ELSE IF a.body = "not_json_re" THEN NoQuote("None", "", TRUE)
  ELSE IF a.body = "not_json_ve" THEN NoQuote("Raise", "ValueError", TRUE)
  ELSE IF a.body = "non_object" THEN NoQuote("Raise", "AttributeError", TRUE)
  ELSE IF ~a.success THEN NoQuote("None", "", TRUE)
  ELSE IF a.data.shape \in {"absent", "empty"} THEN NoQuote("None", "", TRUE)
  ELSE IF a.data.shape = "nonobject"
         THEN NoQuote("Raise", "AttributeError", TRUE)
  ELSE IF a.data.price = Null THEN NoQuote("None", "", TRUE)
  ELSE [tag |-> "Quote", exc |-> "", called |-> TRUE, symbol |-> symbol,
        name |-> COMPANY_NAMES_get(Upper(symbol), Upper(symbol)),
        price |-> a.data.price, change |-> a.data.change,
        change_percent |-> a.data.changePercent,
        volume |-> a.data.volume, high |-> a.data.high, low |-> a.data.low]

(***************************************************************************)
(* The state after construction: an empty store, no request served yet.    *)
(***************************************************************************)
NoBatch == [pc |-> "idle"]

Init ==
  /\ stocks = <<>>
  /\ nextStockId = 1
  /\ trades = <<>>
  /\ nextTradeId = 1
  /\ batch = NoBatch
  /\ resp = [op |-> "none", status |-> 0]

(***************************************************************************)
(* views.py: fetch_stock_price_ajax (the single-symbol refresh operation). *)
(* rawSymbol is the 'symbol' query parameter.                              *)
(***************************************************************************)
fetch_stock_price_ajax(rawSymbol, a) ==
  /\ batch.pc = "idle"
  /\ LET symbol == Upper(rawSymbol)
         data == fetch_stock_from_psx(symbol, a)
     IN resp' =
          IF symbol = ""
            THEN [op |-> "fetch_ajax", status |-> 400, symbol |-> symbol,
                  answer |-> a, fetched |-> NoQuote("None", "", FALSE)]
          ELSE IF data.tag = "Raise"
            THEN [op |-> "fetch_ajax", status |-> 500, symbol |-> symbol,
                  answer |-> a, fetched |-> data]
          ELSE IF data.tag = "None"
            THEN [op |-> "fetch_ajax", status |-> 404, symbol |-> symbol,
                  answer |-> a, fetched |-> data]
          ELSE IF data.price = NonNumeric
            \* float(data["price"]) raises on a value that is no number
            THEN [op |-> "fetch_ajax", status |-> 500, symbol |-> symbol,
                  answer |-> a, fetched |-> data]
          ELSE [op |-> "fetch_ajax", status |-> 200, symbol |-> symbol,
                answer |-> a, fetched |-> data]
  /\ UNCHANGED <<stocks, nextStockId, trades, nextTradeId, batch>>

(***************************************************************************)
(* models.py: Stock.  A Stock row is a record of the symbol, the name and  *)
(* the six quote fields; the remaining columns (tp1..tp3, sl1..sl3, rsi,   *)
(* ltp1..ltp3) are written by no code but the form and are left out.       *)
(***************************************************************************)
Stock(symbol, name, current_price, change, change_percent, volume, high, low) ==
  [symbol |-> symbol, name |-> name, current_price |-> current_price,
   change |-> change, change_percent |-> change_percent,
   volume |-> volume, high |-> high, low |-> low]

\* Model.save() of a Stock: a value that is no number cannot be converted
\* for a DecimalField / BigIntegerField column and the save raises
Stock_save_raises(s) ==
  NonNumeric \in {s.current_price, s.change, s.change_percent,
                  s.volume, s.high, s.low}

(***************************************************************************)
(* forms.py: StockForm (fields = "__all__").  A submission carries every   *)
(* field; a blank field is Null ("" for the two text fields).  pk is the   *)
(* instance the form is bound to, 0 for a new Stock.                       *)
(***************************************************************************)
StockForm_is_valid(f, pk) ==
  /\ f.symbol # ""
  /\ f.name # ""
  \* unique=True on symbol (validate_unique leaves the instance itself out)
  /\ \A id \in DOMAIN stocks : id # pk => stocks[id].symbol # f.symbol

\* form.save(commit=False): the instance with every form field assigned
StockForm_instance(f) ==
  Stock(f.symbol, f.name, f.current_price, f.change, f.change_percent,
        f.volume, f.high, f.low)

(***************************************************************************)
(* views.py: stock_create_view, lines 259-266: the overwrite of the        *)
(* instance's fields by the fetched market data.                           *)
(***************************************************************************)
ApplyQuoteOnCreate_KeepsName(stock, market_data) ==
  IF market_data.tag = "Quote"
    THEN [stock EXCEPT !.current_price = market_data.price,
                       !.change = market_data.change,
                       !.change_percent = market_data.change_percent,
                       !.volume = market_data.volume,
                       !.high = market_data.high,
                       !.low = market_data.low]
    ELSE stock

ApplyQuoteOnCreate(stock, market_data) ==
  IF market_data.tag = "Quote"
    THEN [stock EXCEPT !.name = market_data.name,
                       !.current_price = market_data.price,
                       !.change = market_data.change,
                       !.change_percent = market_data.change_percent,
                       !.volume = market_data.volume,
                       !.high = market_data.high,
                       !.low = market_data.low]
    ELSE stock

\* the function f with the key k added or replaced
Put(f, k, v) == [x \in DOMAIN f \cup {k} |-> IF x = k THEN v ELSE f[x]]

\* the function f without the keys in ks
Without(f, ks) == [x \in DOMAIN f \ ks |-> f[x]]

stock_create_view(method, f, a) ==
  /\ batch.pc = "idle"
  /\ nextStockId <= MaxStocks
  /\ IF method = "POST" /\ StockForm_is_valid(f, 0)
       THEN LET market_data == fetch_stock_from_psx(f.symbol, a)
                stock == ApplyQuoteOnCreate(StockForm_instance(f), market_data)
            IN IF market_data.tag = "Raise" \/ Stock_save_raises(stock)
                 THEN /\ resp' = [op |-> "stock_create", status |-> 500,
                                  form |-> f, fetched |-> market_data,
                                  fetches |-> 1, id |-> 0]
                      /\ UNCHANGED <<stocks, nextStockId>>
                 ELSE /\ stocks' = Put(stocks, nextStockId, stock)
                      /\ nextStockId' = nextStockId + 1
                      /\ resp' = [op |-> "stock_create", status |-> 302,
                                  form |-> f, fetched |-> market_data,
                                  fetches |-> 1, id |-> nextStockId]
       ELSE /\ resp' = [op |-> "stock_create", status |-> 200,
                        form |-> f, fetched |-> NoQuote("None", "", FALSE),
                        fetches |-> 0, id |-> 0]
            /\ UNCHANGED <<stocks, nextStockId>>
  /\ UNCHANGED <<trades, nextTradeId, batch>>

(***************************************************************************)
(* views.py: stock_update_view.                                            *)
(***************************************************************************)
stock_update_view(pk, method, f) ==
  /\ batch.pc = "idle"
  /\ IF pk \notin DOMAIN stocks
       THEN /\ resp' = [op |-> "stock_update", status |-> 404, form |-> f,
                        fetches |-> 0, id |-> pk]
            /\ UNCHANGED stocks
       ELSE IF method = "POST" /\ StockForm_is_valid(f, pk)
         THEN /\ stocks' = [stocks EXCEPT ![pk] = StockForm_instance(f)]
              /\ resp' = [op |-> "stock_update", status |-> 302, form |-> f,
                          fetches |-> 0, id |-> pk]
         ELSE /\ resp' = [op |-> "stock_update", status |-> 200, form |-> f,
                          fetches |-> 0, id |-> pk]
              /\ UNCHANGED stocks
  /\ UNCHANGED <<nextStockId, trades, nextTradeId, batch>>

(***************************************************************************)
(* views.py: stock_delete_view.  Trade.stock is on_delete=CASCADE.         *)
(***************************************************************************)
stock_delete_view(pk, method) ==
  /\ batch.pc = "idle"
  /\ IF pk \notin DOMAIN stocks
       THEN /\ resp' = [op |-> "stock_delete", status |-> 404, id |-> pk]
            /\ UNCHANGED <<stocks, trades>>
       ELSE IF method = "POST"
         THEN /\ stocks' = Without(stocks, {pk})
              /\ trades' = Without(trades,
                             {t \in DOMAIN trades : trades[t].stock = pk})
              /\ resp' = [op |-> "stock_delete", status |-> 302, id |-> pk]
         ELSE /\ resp' = [op |-> "stock_delete", status |-> 200, id |-> pk]
              /\ UNCHANGED <<stocks, trades>>
  /\ UNCHANGED <<nextStockId, nextTradeId, batch>>

(***************************************************************************)
(* views.py: refresh_stock_prices_api (the batch refresh operation).       *)
(*                                                                         *)
(* A request is [method, ids, symbols, all]:                               *)
(*   ids     the comma-separated 'ids' parameter as the sequence of its    *)
(*           tokens: a number, Blank (empty or white space) or BadToken    *)
(*           (text int() rejects); <<>> is the missing parameter           *)
(*   symbols the 'symbols' parameter as the sequence of its tokens, ""     *)
(*           for a blank one                                               *)
(*   all     the text of the 'all' parameter                               *)
(***************************************************************************)
Blank == -1
BadToken == -2

\* request.GET.get(name, "").strip() is a non-empty string: a lone blank
\* token is the empty string after strip()
ParamGiven(tokens, blank) == tokens # <<>> /\ tokens # <<blank>>

SeqRange(q) == {q[i] : i \in 1..Len(q)}

\* views.py lines 323-344: the selection, or the response that rejects the
\* request.  status 0 means the request goes on to the loop over 'selected'.
ResolveSelection_EmptyAccepted(req, db) ==
  IF req.method # "GET" THEN [status |-> 405, selected |-> {}]
  ELSE IF Lower(req.all) = "true"
    THEN [status |-> 0, selected |-> DOMAIN db]
  ELSE IF ParamGiven(req.ids, Blank)
    THEN IF BadToken \in SeqRange(req.ids)
           THEN [status |-> 400, selected |-> {}]
         ELSE [status |-> 0,
               selected |-> {id \in DOMAIN db :
                               id \in SeqRange(req.ids) \ {Blank}}]
  ELSE IF ParamGiven(req.symbols, "")
    THEN [status |-> 0,
          selected |-> {id \in DOMAIN db :
                          db[id].symbol \in
                            {Upper(x) : x \in SeqRange(req.symbols) \ {""}}}]
  ELSE [status |-> 400, selected |-> {}]

ResolveSelection(req, db) ==
  IF req.method # "GET" THEN [status |-> 405, selected |-> {}]
  ELSE IF Lower(req.all) = "true"
    THEN IF DOMAIN db = {} THEN [status |-> 404, selected |-> {}]
         ELSE [status |-> 0, selected |-> DOMAIN db]
  ELSE IF ParamGiven(req.ids, Blank)
    THEN IF BadToken \in SeqRange(req.ids)
           THEN [status |-> 400, selected |-> {}]
         ELSE LET id_list == SeqRange(req.ids) \ {Blank}
                  sel == {id \in DOMAIN db : id \in id_list}
              IN IF sel = {} THEN [status |-> 404, selected |-> {}]
                 ELSE [status |-> 0, selected |-> sel]
  ELSE IF ParamGiven(req.symbols, "")
    THEN LET symbol_list == {Upper(x) : x \in SeqRange(req.symbols) \ {""}}
             sel == {id \in DOMAIN db : db[id].symbol \in symbol_list}
         IN IF sel = {} THEN [status |-> 404, selected |-> {}]
            ELSE [status |-> 0, selected |-> sel]
  ELSE [status |-> 400, selected |-> {}]

refresh_stock_prices_api_begin(req) ==
  /\ batch.pc = "idle"
  /\ LET r == ResolveSelection(req, stocks)
     IN IF r.status # 0
          THEN /\ resp' = [op |-> "refresh", status |-> r.status, req |-> req,
                           fetches |-> <<>>]
               /\ UNCHANGED batch
          ELSE /\ resp' = [op |-> "refresh", status |-> 0, req |-> req,
                           fetches |-> <<>>]
               /\ batch' = [pc |-> "loop", req |-> req,
                            selected |-> r.selected, pending |-> r.selected,
                            updated_stocks |-> <<>>, errors |-> <<>>,
                            fetches |-> <<>>, got |-> <<>>,
                            before |-> stocks]
  /\ UNCHANGED <<stocks, nextStockId, trades, nextTradeId>>

\* float(x) if x else None (int(x) for the volume)
NumberOrNone(x) == IF Truthy(x) THEN x ELSE Null

\* views.py line 355: market_data and market_data.get("price") is not None
QuoteUsable_Unchecked(market_data) == market_data.tag # "Raise"

QuoteUsable(market_data) ==
  market_data.tag = "Quote" /\ market_data.price # Null

\* views.py lines 357-362: the quote fields assigned to the Stock (the name
\* is not among them)
AssignQuote(stock, market_data) ==
  [stock EXCEPT !.current_price = market_data.price,
                !.change = market_data.change,
                !.change_percent = market_data.change_percent,
                !.volume = market_data.volume,
                !.high = market_data.high,
                !.low = market_data.low]

\* views.py line 381: 'except Exception' catches whatever the loop body
\* raises
CaughtInLoop_RequestErrorsOnly(exc) == exc = "RequestException"

CaughtInLoop(exc) == exc \in {"RequestException", "ValueError",
                             "AttributeError", "ValidationError"}

\* views.py lines 351-385: one pass of the loop body for the Stock 'stock'
\* with primary key pk.  The result names the row as the database holds it
\* after the pass and the entry added to updated_stocks or to errors; list
\* "raise" is an exception that leaves the loop.
RefreshOne(pk, stock, a) ==
  LET market_data == fetch_stock_from_psx(stock.symbol, a)
      new == AssignQuote(stock, market_data)
      Failed(exc) ==
        [row |-> stock, market_data |-> market_data,
         list |-> IF CaughtInLoop(exc) THEN "errors" ELSE "raise",
         entry |-> [symbol |-> stock.symbol, error |-> exc]]
  IN IF market_data.tag = "Raise" THEN Failed(market_data.exc)
     ELSE IF QuoteUsable(market_data)
       THEN IF Stock_save_raises(new) THEN Failed("ValidationError")
            ELSE [row |-> new, market_data |-> market_data,
                  list |-> "updated_stocks",
                  entry |-> [id |-> pk, symbol |-> new.symbol,
                             current_price |-> NumberOrNone(new.current_price),
                             change |-> NumberOrNone(new.change),
                             change_percent |->
                               NumberOrNone(new.change_percent),
                             volume |-> NumberOrNone(new.volume),
                             high |-> NumberOrNone(new.high),
                             low |-> NumberOrNone(new.low)]]
     ELSE [row |-> stock, market_data |-> market_data, list |-> "errors",
           entry |-> [symbol |-> stock.symbol,
                      error |-> "No data available from API"]]

\* views.py line 363: stock.save() inside the loop writes the row at once
PersistInLoop_Deferred(db, pk, row) == db

PersistInLoop(db, pk, row) == [db EXCEPT ![pk] = row]

\* the loop takes the selected Stocks in the order the database returns
\* them, which no order_by fixes; an exception that leaves the loop ends the
\* request with a server error
refresh_stock_prices_api_step(pk, a) ==
  /\ batch.pc = "loop"
  /\ pk \in batch.pending
  /\ LET r == RefreshOne(pk, stocks[pk], a)
     IN /\ stocks' = PersistInLoop(stocks, pk, r.row)
        /\ IF r.list = "raise"
             THEN /\ batch' = NoBatch
                  /\ resp' = [op |-> "refresh", status |-> 500,
                              req |-> batch.req,
                              fetches |-> Append(batch.fetches, pk)]
             ELSE /\ batch' = [batch EXCEPT
                       !.pending = @ \ {pk},
                       !.fetches = Append(@, pk),
                       !.got = Put(@, pk, r.market_data),
                       !.updated_stocks =
                          IF r.list = "updated_stocks"
                            THEN Append(@, r.entry) ELSE @,
                       !.errors =
                          IF r.list = "errors" THEN Append(@, r.entry) ELSE @]
                  /\ UNCHANGED resp
  /\ UNCHANGED <<nextStockId, trades, nextTradeId>>

\* whether one transaction spans the request (the ATOMIC_REQUESTS setting
\* of the project): the design has no transaction around the batch
ATOMIC_REQUESTS == FALSE

\* the process dies between two passes of the loop: what the database holds
\* afterwards is what was committed
refresh_stock_prices_api_crash ==
  /\ batch.pc = "loop"
  /\ stocks' = IF ATOMIC_REQUESTS THEN batch.before ELSE stocks
  /\ batch' = NoBatch
  /\ resp' = [op |-> "crash", status |-> 0,
              selected |-> batch.selected, pending |-> batch.pending,
              fetches |-> batch.fetches, got |-> batch.got,
              before |-> batch.before]
  /\ UNCHANGED <<nextStockId, trades, nextTradeId>>

\* views.py lines 387-392: the summary
refresh_stock_prices_api_end ==
  /\ batch.pc = "loop"
  /\ batch.pending = {}
  /\ resp' = [op |-> "refresh", status |-> 200, req |-> batch.req,
              success |-> TRUE,
              updated |-> Len(batch.updated_stocks),
              stocks |-> batch.updated_stocks,
              errors |-> batch.errors,
              selected |-> batch.selected,
              fetches |-> batch.fetches,
              got |-> batch.got]
  /\ batch' = NoBatch
  /\ UNCHANGED <<stocks, nextStockId, trades, nextTradeId>>

(***************************************************************************)
(* Decimal arithmetic.  round(x, 2) on a Decimal rounds half to even; n/d  *)
(* is the exact quotient (the 28 significant digits of the decimal context *)
(* are exact for the amounts of the model).                                *)
(***************************************************************************)
RoundHalfEven(n, d) ==
  LET nn == IF d < 0 THEN -n ELSE n
      dd == IF d < 0 THEN -d ELSE d
      q == nn \div dd
      r == nn % dd
  IN IF 2 * r < dd THEN q
     ELSE IF 2 * r > dd THEN q + 1
     ELSE IF q % 2 = 0 THEN q ELSE q + 1

(***************************************************************************)
(* models.py: Trade.  The input fields, the six fields Trade.save          *)
(* recomputes, and the computed properties.  comments, max_profit and      *)
(* min_profit_loss are written by no code and are left out.                *)
(***************************************************************************)
Trade_total_cost(t) == t.quantity * t.buying_price

\* the property current_price: the price of the Stock row the trade refers to
Trade_current_price_Unresolved(t, db) == Null

Trade_current_price(t, db) ==
  IF t.stock \in DOMAIN db THEN db[t.stock].current_price ELSE Null

Trade_current_value_NotNone(t, db) ==
  IF Trade_current_price(t, db) # Null
    THEN t.quantity * Trade_current_price(t, db)
    ELSE Null

Trade_current_value(t, db) ==
  IF Truthy(Trade_current_price(t, db))
    THEN t.quantity * Trade_current_price(t, db)
    ELSE Null

Trade_unrealized_pl(t, db) ==
  IF Trade_current_value(t, db) # Null
    THEN Trade_current_value(t, db) - Trade_total_cost(t)
    ELSE Null

Trade_pl_percent(t, db) ==
  IF Trade_total_cost(t) # 0 /\ Trade_unrealized_pl(t, db) # Null
    THEN RoundHalfEven(10000 * Trade_unrealized_pl(t, db), Trade_total_cost(t))
    ELSE 0

\* models.py lines 142-160: profit_expected and profit_percent
Compute_profit_expected(t) ==
  IF Truthy(t.mtp) THEN (t.mtp - t.buying_price) * t.quantity ELSE Null

Compute_profit_percent_ZeroDefault(t) ==
  IF Truthy(t.mtp)
    THEN IF Truthy(t.buying_price)
           THEN RoundHalfEven(10000 * (t.mtp - t.buying_price),
                              t.buying_price)
           ELSE 0
    ELSE Null

Compute_profit_percent(t) ==
  IF Truthy(t.mtp) /\ Truthy(t.buying_price)
    THEN RoundHalfEven(10000 * (t.mtp - t.buying_price), t.buying_price)
    ELSE Null

\* models.py lines 162-170
Compute_loss_expected(t) ==
  IF Truthy(t.msl) THEN (t.buying_price - t.msl) * t.quantity ELSE Null

\* models.py lines 172-194
Compute_pl_ratio_AnyNonZeroLoss(t) ==
  IF Truthy(t.mtp) /\ Truthy(t.msl) /\ Truthy(t.buying_price)
       /\ t.buying_price - t.msl # 0
    THEN RoundHalfEven(100 * (t.mtp - t.buying_price),
                       t.buying_price - t.msl)
    ELSE Null

Compute_pl_ratio(t) ==
  IF Truthy(t.mtp) /\ Truthy(t.msl) /\ Truthy(t.buying_price)
       /\ t.buying_price - t.msl > 0
    THEN RoundHalfEven(100 * (t.mtp - t.buying_price),
                       t.buying_price - t.msl)
    ELSE Null

\* models.py lines 196-203
Compute_rate_difference(t, current_price) ==
  IF Truthy(current_price) THEN current_price - t.buying_price ELSE Null

\* models.py lines 205-217
Compute_loss_recent_BelowStopOnly(t, current_price) ==
  IF Truthy(t.msl) /\ Truthy(current_price) /\ current_price < t.msl
    THEN (t.buying_price - current_price) * t.quantity
    ELSE Null

Compute_loss_recent(t, current_price) ==
  IF Truthy(t.msl) /\ Truthy(current_price)
       /\ current_price < t.buying_price
    THEN (t.buying_price - current_price) * t.quantity
    ELSE Null

\* models.py lines 142-217: the fields Trade.save assigns, from the inputs
\* of the trade and the current price it sees
ComputeDerived(t, current_price) ==
  [profit_expected |-> Compute_profit_expected(t),
   profit_percent |-> Compute_profit_percent(t),
   loss_expected |-> Compute_loss_expected(t),
   pl_ratio |-> Compute_pl_ratio(t),
   rate_difference |-> Compute_rate_difference(t, current_price),
   loss_recent |-> Compute_loss_recent(t, current_price)]

DerivedFields ==
  {"profit_expected", "profit_percent", "loss_expected", "pl_ratio",
   "rate_difference", "loss_recent"}

Derived(t) == [k \in DerivedFields |-> t[k]]

Trade_save_Accumulating(t, db) ==
  LET d == ComputeDerived(t, Trade_current_price(t, db))
  IN [t EXCEPT !.profit_expected = d.profit_expected,
               !.profit_percent = d.profit_percent,
               !.loss_expected =
                  IF d.loss_expected # Null /\ t.loss_expected # Null
                    THEN t.loss_expected + d.loss_expected
                    ELSE d.loss_expected,
               !.pl_ratio = d.pl_ratio,
               !.rate_difference = d.rate_difference,
               !.loss_recent = d.loss_recent]

\* Trade.save: the row that is stored
Trade_save(t, db) ==
  LET d == ComputeDerived(t, Trade_current_price(t, db))
  IN [t EXCEPT !.profit_expected = d.profit_expected,
               !.profit_percent = d.profit_percent,
               !.loss_expected = d.loss_expected,
               !.pl_ratio = d.pl_ratio,
               !.rate_difference = d.rate_difference,
               !.loss_recent = d.loss_recent]

(***************************************************************************)
(* forms.py: TradeForm.  A submission carries stock, quantity,             *)
(* buying_price, buy_date, mtp and msl; a blank field is Null.             *)
(***************************************************************************)
TradeForm_is_valid_AnyQuantity(f) ==
  /\ f.stock \in DOMAIN stocks
  /\ f.quantity # Null
  /\ f.buying_price # Null /\ f.buying_price >= 0
  /\ f.buy_date # Null
  /\ f.mtp = Null \/ f.mtp >= 0
  /\ f.msl = Null \/ f.msl >= 0

TradeForm_is_valid(f) ==
  /\ f.stock \in DOMAIN stocks
  /\ f.quantity # Null /\ f.quantity > 0
  /\ f.buying_price # Null /\ f.buying_price >= 0
  /\ f.buy_date # Null
  /\ f.mtp = Null \/ f.mtp >= 0
  /\ f.msl = Null \/ f.msl >= 0

\* form.save(commit=False) on the instance 'old' followed by the assignment
\* of the user: the form's fields replace the instance's, the rest stays
TradeForm_instance(f, old, user) ==
  [old EXCEPT !.user = user, !.stock = f.stock, !.quantity = f.quantity,
              !.buying_price = f.buying_price, !.buy_date = f.buy_date,
              !.mtp = f.mtp, !.msl = f.msl]

NewTrade ==
  [user |-> "", stock |-> 0, quantity |-> Null, buying_price |-> Null,
   buy_date |-> Null, mtp |-> Null, msl |-> Null,
   profit_expected |-> Null, profit_percent |-> Null,
   loss_expected |-> Null, pl_ratio |-> Null, rate_difference |-> Null,
   loss_recent |-> Null]

(***************************************************************************)
(* views.py: trade_create_view, trade_update_view, trade_delete_view.      *)
(***************************************************************************)
trade_create_view(user, method, f) ==
  /\ batch.pc = "idle"
  /\ nextTradeId <= MaxTrades
  /\ IF method = "POST" /\ TradeForm_is_valid(f)
       THEN /\ trades' = Put(trades, nextTradeId,
                             Trade_save(TradeForm_instance(f, NewTrade, user),
                                        stocks))
            /\ nextTradeId' = nextTradeId + 1
            /\ resp' = [op |-> "trade_create", status |-> 302,
                        user |-> user, id |-> nextTradeId,
                        form |-> f]
       ELSE /\ resp' = [op |-> "trade_create", status |-> 200,
                        user |-> user, id |-> 0, form |-> f]
            /\ UNCHANGED <<trades, nextTradeId>>
  /\ UNCHANGED <<stocks, nextStockId, batch>>

TradeOf_AnyUser(user, pk) == pk \in DOMAIN trades

\* get_object_or_404(Trade, pk=pk, user=request.user)
TradeOf(user, pk) == pk \in DOMAIN trades /\ trades[pk].user = user

trade_update_view(user, pk, method, f) ==
  /\ batch.pc = "idle"
  /\ IF ~TradeOf(user, pk)
       THEN /\ resp' = [op |-> "trade_update", status |-> 404,
                        user |-> user, id |-> pk, form |-> f]
            /\ UNCHANGED trades
       ELSE IF method = "POST" /\ TradeForm_is_valid(f)
         THEN /\ trades' = [trades EXCEPT ![pk] =
                              Trade_save(TradeForm_instance(f, trades[pk], user),
                                         stocks)]
              /\ resp' = [op |-> "trade_update", status |-> 302,
                          user |-> user, id |-> pk, form |-> f,
                          same_inputs |->
                            TradeForm_instance(f, trades[pk], user)
                              = trades[pk]]
         ELSE /\ resp' = [op |-> "trade_update", status |-> 200,
                          user |-> user, id |-> pk, form |-> f]
              /\ UNCHANGED trades
  /\ UNCHANGED <<stocks, nextStockId, nextTradeId, batch>>

trade_delete_view(user, pk, method) ==
  /\ batch.pc = "idle"
  /\ IF ~TradeOf(user, pk)
       THEN /\ resp' = [op |-> "trade_delete", status |-> 404,
                        user |-> user, id |-> pk]
            /\ UNCHANGED trades
       ELSE IF method = "POST"
         THEN /\ trades' = Without(trades, {pk})
              /\ resp' = [op |-> "trade_delete", status |-> 302,
                          user |-> user, id |-> pk]
         ELSE /\ resp' = [op |-> "trade_delete", status |-> 200,
                          user |-> user, id |-> pk]
              /\ UNCHANGED trades
  /\ UNCHANGED <<stocks, nextStockId, nextTradeId, batch>>

(***************************************************************************)
(* views.py: portfolio_dashboard.                                          *)
(***************************************************************************)
RECURSIVE SumOf(_, _)
\* sum(f[x] for x in S)
SumOf(f, S) ==
  IF S = {} THEN 0
  ELSE LET x == CHOOSE y \in S : TRUE IN f[x] + SumOf(f, S \ {x})

\* the orders in which a query can return the rows of S
Orders(S) ==
  {q \in [1..Cardinality(S) -> S] :
     \A i, j \in 1..Cardinality(S) : i # j => q[i] # q[j]}

\* views.py lines 179-189: the user's trades, narrowed by
\* stock__symbol__iexact when the stripped 'stock' parameter is not empty
Holdings(user, stock_filter) ==
  {t \in DOMAIN trades :
     /\ trades[t].user = user
     /\ stock_filter # "" =>
          Upper(stocks[trades[t].stock].symbol) = Upper(stock_filter)}

\* views.py lines 211-215: the annotation 'pl' of the loss view, computed by
\* the database: an operand that is NULL makes the expression NULL
LossAnnotation(t) ==
  LET p == stocks[trades[t].stock].current_price
  IN IF p = Null THEN Null
     ELSE trades[t].quantity * p
            - trades[t].quantity * trades[t].buying_price

\* ORDER BY on the symbol compares code points
SymbolRank(sym) ==
  CASE sym = "AB" -> 1
    [] sym = "CD" -> 2
    [] sym = "ab" -> 3
    [] OTHER -> 4

\* ORDER BY pl ASC: a NULL sorts before every value or after every value,
\* as the database has it (nulls_first)
LossOrdered(a, b, nulls_first) ==
  LET x == LossAnnotation(a)
      y == LossAnnotation(b)
  IN IF x = Null /\ y = Null THEN TRUE
     ELSE IF x = Null THEN nulls_first
     ELSE IF y = Null THEN ~nulls_first
     ELSE x <= y

\* views.py lines 193-216: q is an order the sorted query can return; a
\* sort key the view does not know leaves the query unordered
InSortOrder(q, sort_by, nulls_first) ==
  \A i, j \in 1..Len(q) :
    i < j =>
      CASE sort_by = "symbol" ->
             SymbolRank(stocks[trades[q[i]].stock].symbol)
               <= SymbolRank(stocks[trades[q[j]].stock].symbol)
        [] sort_by = "date" -> trades[q[i]].buy_date >= trades[q[j]].buy_date
        [] sort_by = "loss" -> LossOrdered(q[i], q[j], nulls_first)
        [] OTHER -> TRUE

\* views.py lines 219-222
PortfolioTotalCost_QuotedOnly(H) ==
  LET Q == {t \in H : Truthy(stocks[trades[t].stock].current_price)}
  IN SumOf([t \in Q |-> trades[t].quantity * trades[t].buying_price], Q)

PortfolioTotalCost(H) ==
  SumOf([t \in H |-> trades[t].quantity * trades[t].buying_price], H)

\* views.py lines 224-228
PortfolioTotalValue(H) ==
  LET Q == {t \in H : Truthy(stocks[trades[t].stock].current_price)}
  IN SumOf([t \in Q |->
              trades[t].quantity * stocks[trades[t].stock].current_price], Q)

\* views.py line 232
PortfolioPlPercentage(total_unrealized_pl, total_cost) ==
  IF total_cost # 0
    THEN RoundHalfEven(10000 * total_unrealized_pl, total_cost)
    ELSE 0

\* sort=profit evaluates order_by(-"pl"): the unary minus on a str raises
\* TypeError before any query runs, and the request ends in a server error
portfolio_dashboard(user, stock_filter, sort_by, nulls_first) ==
  /\ batch.pc = "idle"
  /\ IF sort_by = "profit"
       THEN resp' = [op |-> "portfolio", status |-> 500, user |-> user,
                     stock_filter |-> stock_filter, sort_by |-> sort_by]
       ELSE LET H == Holdings(user, stock_filter)
                total_cost == PortfolioTotalCost(H)
                total_value == PortfolioTotalValue(H)
                total_unrealized_pl == total_value - total_cost
            IN \E q \in Orders(H) :
                 /\ InSortOrder(q, sort_by, nulls_first)
                 /\ resp' = [op |-> "portfolio", status |-> 200,
                             user |-> user, stock_filter |-> stock_filter,
                             sort_by |-> sort_by,
                             holdings |-> q,
                             pl |-> IF sort_by = "loss"
                                      THEN [t \in H |-> LossAnnotation(t)]
                                      ELSE <<>>,
                             total_cost |-> total_cost,
                             total_value |-> total_value,
                             unrealized_pl |-> total_unrealized_pl,
                             pl_percentage |->
                               PortfolioPlPercentage(total_unrealized_pl,
                                                     total_cost),
                             active_trades |-> Cardinality(H)]
  /\ UNCHANGED <<stocks, nextStockId, trades, nextTradeId, batch>>

(***************************************************************************)
(* Inputs of the stock operations.                                         *)
(***************************************************************************)
StockFormData(symbol, name, current_price) ==
  Stock(symbol, name, current_price, Null, Null, Null, Null, Null)

SyncForms ==
  { StockFormData("ab", "Acme", Null), StockFormData("AB", "Acme", 95),
    StockFormData("CD", "Acme", Null), StockFormData("", "Acme", Null) }

SyncAnswers ==
  { Answer("exception", 0, "object", FALSE, DataOf("absent", NoFields)),
    Answer("response", 200, "non_object", TRUE, DataOf("absent", NoFields)),
    Answer("response", 200, "object", FALSE, DataOf("object", FieldsFull)),
    OkAnswer(FieldsFull),
    OkAnswer(FieldsBadPrice) }

Request(method, ids, symbols, all) ==
  [method |-> method, ids |-> ids, symbols |-> symbols, all |-> all]

NoSuchId == 99

Requests ==
  { Request("POST", <<>>, <<>>, "true") }
    \cup { Request("GET", ids, <<>>, all) :
             ids \in {<<>>, <<1>>, <<1, Blank, 2>>, <<Blank, Blank>>,
                      <<NoSuchId>>, <<1, BadToken>>},
             all \in {"", "TRUE"} }
    \cup { Request("GET", <<>>, syms, "yes") :
             syms \in {<<"ab">>, <<"AB", "", "CD">>, <<"", "">>, <<"zz">>} }
    \cup { Request("GET", <<Blank>>, <<"">>, "") }

StockIds == 1..MaxStocks

Methods == {"GET", "POST"}

NextSync ==
  \/ \E m \in Methods, f \in SyncForms, a \in SyncAnswers :
       stock_create_view(m, f, a)
  \/ \E pk \in StockIds, m \in Methods, f \in SyncForms :
       stock_update_view(pk, m, f)
  \/ \E pk \in StockIds, m \in Methods : stock_delete_view(pk, m)
  \/ \E req \in Requests : refresh_stock_prices_api_begin(req)
  \/ \E pk \in StockIds, a \in SyncAnswers :
       refresh_stock_prices_api_step(pk, a)
  \/ refresh_stock_prices_api_end

SpecSync == Init /\ [][NextSync]_vars

NextFetch ==
  \E s \in Symbols \cup {""}, a \in ProviderAnswers :
    fetch_stock_price_ajax(s, a)

SpecFetch == Init /\ [][NextFetch]_vars

(***************************************************************************)
(* Inputs of the trade operations, and the specification of the trade      *)
(* valuation: one Stock whose price is absent, zero, below or above the    *)
(* buying price, and trades saved and re-saved between its refreshes.      *)
(***************************************************************************)
TradeFormData(stock, quantity, buying_price, buy_date, mtp, msl) ==
  [stock |-> stock, quantity |-> quantity, buying_price |-> buying_price,
   buy_date |-> buy_date, mtp |-> mtp, msl |-> msl]

Users == {"u1", "u2"}

TradeIds == 1..MaxTrades

ValuationStockForms ==
  { StockFormData("CD", "Acme", Null), StockFormData("CD", "Acme", 0) }

ValuationAnswers ==
  { Answer("exception", 0, "object", FALSE, DataOf("absent", NoFields)),
    OkAnswer(FieldsFull), OkAnswer(FieldsLow), OkAnswer(FieldsZero) }

ValuationTradeForms ==
  { TradeFormData(1, 10, 100, 1, mtp, msl) :
      mtp \in {Null, 130}, msl \in {Null, 90} }
    \cup { TradeFormData(1, 0, 100, 1, Null, Null) }

ValuationRequests == { Request("GET", <<>>, <<>>, "true") }

NextTrade ==
  \/ \E f \in ValuationStockForms, a \in ValuationAnswers :
       stock_create_view("POST", f, a)
  \/ \E f \in ValuationStockForms : stock_update_view(1, "POST", f)
  \/ stock_delete_view(1, "POST")
  \/ \E req \in ValuationRequests : refresh_stock_prices_api_begin(req)
  \/ \E pk \in StockIds, a \in ValuationAnswers :
       refresh_stock_prices_api_step(pk, a)
  \/ refresh_stock_prices_api_end
  \/ \E f \in ValuationTradeForms : trade_create_view("u1", "POST", f)
  \/ \E pk \in TradeIds, f \in ValuationTradeForms :
       trade_update_view("u1", pk, "POST", f)
  \/ \E pk \in TradeIds : trade_delete_view("u1", pk, "POST")

SpecTrade == Init /\ [][NextTrade]_vars

(***************************************************************************)
(* The specification of the portfolio report: Stocks created with or       *)
(* without a quote, trades of two users on them, and the report.           *)
(***************************************************************************)
ReportStockForms ==
  { StockFormData("ab", "Acme", Null), StockFormData("CD", "Acme", Null) }

ReportAnswers ==
  { Answer("exception", 0, "object", FALSE, DataOf("absent", NoFields)),
    OkAnswer(FieldsFull), OkAnswer(FieldsLow), OkAnswer(FieldsZero) }

ReportTradeForms ==
  { TradeFormData(st, 10, 100, 1, Null, Null) : st \in StockIds }
    \cup { TradeFormData(st, 20, 100, 2, Null, Null) : st \in StockIds }

\* the trades submitted: every form by u1, one by u2
ReportTradeRequests ==
  { <<"u1", f>> : f \in ReportTradeForms }
    \cup { <<"u2", TradeFormData(1, 10, 100, 1, Null, Null)>> }

StockFilters == {"", "cd"}

SortKeys == {"symbol", "date", "profit", "loss", "name"}

\* the placement of NULLs matters to the loss view only
NullsPlacements(sort_by) == IF sort_by = "loss" THEN BOOLEAN ELSE {TRUE}

NextReport ==
  \/ \E f \in ReportStockForms, a \in ReportAnswers :
       stock_create_view("POST", f, a)
  \/ \E r \in ReportTradeRequests : trade_create_view(r[1], "POST", r[2])
  \/ \E fl \in StockFilters, k \in SortKeys :
       \E nf \in NullsPlacements(k) : portfolio_dashboard("u1", fl, k, nf)

SpecReport == Init /\ [][NextReport]_vars

(***************************************************************************)
(* The specification of the recomputation: one Stock whose price the edit  *)
(* sets to absent, zero, below, at or above the buying price, and a trade  *)
(* saved again and again with every combination of target and stop.        *)
(***************************************************************************)
RecomputeStockForms ==
  { StockFormData("CD", "Acme", p) : p \in {Null, 0, 80, 100, 120} }

RecomputeAnswers ==
  { Answer("exception", 0, "object", FALSE, DataOf("absent", NoFields)) }

RecomputeCreateForms == { TradeFormData(1, 10, 100, 1, 130, 90) }

RecomputeUpdateForms ==
  { TradeFormData(1, 10, bp, 1, mtp, msl) :
      bp \in {0, 100}, mtp \in {Null, 0, 50, 110, 130},
      msl \in {Null, 0, 20, 90, 100, 110} }

NextRecompute ==
  \/ \E f \in RecomputeStockForms, a \in RecomputeAnswers :
       stock_create_view("POST", f, a)
  \/ \E f \in RecomputeStockForms : stock_update_view(1, "POST", f)
  \/ \E f \in RecomputeCreateForms : trade_create_view("u1", "POST", f)
  \/ \E f \in RecomputeUpdateForms : trade_update_view("u1", 1, "POST", f)

SpecRecompute == Init /\ [][NextRecompute]_vars

(***************************************************************************)
(* The specification of the trade requests: two users create, edit and     *)
(* delete trades on one Stock, by identifier, with acceptable and          *)
(* unacceptable forms.                                                     *)
(***************************************************************************)
OwnerStockForms == { StockFormData("CD", "Acme", 100) }

OwnerAnswers ==
  { Answer("exception", 0, "object", FALSE, DataOf("absent", NoFields)) }

OwnerTradeForms ==
  { TradeFormData(1, 10, 100, 1, 130, 90),
    TradeFormData(1, 5, 0, 1, Null, 0),
    TradeFormData(1, 0, 100, 1, 130, 90),
    TradeFormData(1, -5, 100, 1, Null, Null),
    TradeFormData(1, 10, -1, 1, 130, 90),
    TradeFormData(1, 10, 100, 1, -1, 90),
    TradeFormData(1, 10, 100, 1, 130, -1) }

NextOwner ==
  \/ \E f \in OwnerStockForms, a \in OwnerAnswers :
       stock_create_view("POST", f, a)
  \/ stock_delete_view(1, "POST")
  \/ \E u \in Users, m \in Methods, f \in OwnerTradeForms :
       trade_create_view(u, m, f)
  \/ \E u \in Users, pk \in TradeIds, m \in Methods, f \in OwnerTradeForms :
       trade_update_view(u, pk, m, f)
  \/ \E u \in Users, pk \in TradeIds, m \in Methods :
       trade_delete_view(u, pk, m)

SpecOwner == Init /\ [][NextOwner]_vars

(***************************************************************************)
(* The specification of the interrupted batch: Stocks with and without a   *)
(* price, refreshed all together or one alone, the process dying at any    *)
(* point of the loop.                                                      *)
(***************************************************************************)
CrashStockForms ==
  { StockFormData("ab", "Acme", Null), StockFormData("CD", "Acme", 95),
    StockFormData("AB", "Acme", Null) }

CrashCreateAnswers ==
  { Answer("exception", 0, "object", FALSE, DataOf("absent", NoFields)) }

CrashAnswers ==
  { Answer("exception", 0, "object", FALSE, DataOf("absent", NoFields)),
    OkAnswer(FieldsFull), OkAnswer(FieldsLow), OkAnswer(FieldsBadPrice) }

CrashRequests ==
  { Request("GET", <<>>, <<>>, "true"), Request("GET", <<1>>, <<>>, "") }

NextCrash ==
  \/ \E f \in CrashStockForms, a \in CrashCreateAnswers :
       stock_create_view("POST", f, a)
  \/ \E req \in CrashRequests : refresh_stock_prices_api_begin(req)
  \/ \E pk \in StockIds, a \in CrashAnswers :
       refresh_stock_prices_api_step(pk, a)
  \/ refresh_stock_prices_api_end
  \/ refresh_stock_prices_api_crash

SpecCrash == Init /\ [][NextCrash]_vars

(***************************************************************************)
(* Every operation, over the inputs of the specifications above.           *)
(***************************************************************************)
Next ==
  NextFetch \/ NextSync \/ NextTrade \/ NextReport \/ NextRecompute
    \/ NextOwner \/ NextCrash

Spec == Init /\ [][Next]_vars

(***************************************************************************)
(* Properties of the market-data synchronization (SpecSync).               *)
(***************************************************************************)
Occurrences(q, x) == Cardinality({i \in 1..Len(q) : q[i] = x})

QuoteFieldsEqual(stock, q) ==
  /\ stock.current_price = q.price
  /\ stock.change = q.change
  /\ stock.change_percent = q.change_percent
  /\ stock.volume = q.volume
  /\ stock.high = q.high
  /\ stock.low = q.low

\* the Stock got a Quote and storing it did not fail
UpdateSucceeded(q) == q.tag = "Quote" /\ q.price # NonNumeric

\* C1: a batch refresh over a non-empty selection never ends in a server
\* error; when it answers, every selected Stock was fetched exactly once and
\* is named by exactly one entry of the 'stocks' (updated) list or of the
\* 'errors' list, every Stock whose Quote was stored holds the Quote's
\* fields whatever happened to the other Stocks, every other Stock is among
\* the errors, and 'updated' is the length of the updated list.
C1_BatchToleratesFailures ==
  /\ resp.op = "refresh" => resp.status # 500
  /\ (resp.op = "refresh" /\ resp.status = 200) =>
       /\ resp.success
       /\ resp.selected # {}
       /\ Len(resp.fetches) = Cardinality(resp.selected)
       /\ Len(resp.stocks) + Len(resp.errors) = Cardinality(resp.selected)
       /\ resp.updated = Len(resp.stocks)
       /\ \A pk \in resp.selected :
            LET inUpdated == {i \in 1..Len(resp.stocks) :
                                resp.stocks[i].id = pk}
                inErrors == {j \in 1..Len(resp.errors) :
                               resp.errors[j].symbol = stocks[pk].symbol}
            IN /\ Occurrences(resp.fetches, pk) = 1
               /\ Cardinality(inUpdated) + Cardinality(inErrors) = 1
               /\ UpdateSucceeded(resp.got[pk]) =>
                    /\ inUpdated # {}
                    /\ QuoteFieldsEqual(stocks[pk], resp.got[pk])
               /\ ~UpdateSucceeded(resp.got[pk]) => inErrors # {}

\* a batch answered although an earlier Stock failed and a later one was
\* updated
C1_Witness ==
  /\ resp.op = "refresh" /\ resp.status = 200
  /\ Len(resp.errors) = 1
  /\ \E i, j \in 1..Len(resp.fetches) :
       /\ i < j
       /\ resp.got[resp.fetches[i]].tag = "Raise"
       /\ UpdateSucceeded(resp.got[resp.fetches[j]])
       /\ stocks[resp.fetches[j]].current_price = 120

\* C2: a fetch that returns no Quote changes no Stock: a pass of the batch
\* loop that got no Quote leaves every row as it was, and a creation that
\* got no Quote stores the submitted fields as they are.
C2_NoQuoteLeavesStock ==
  [][ /\ ( /\ batch.pc = "loop" /\ batch'.pc = "loop"
           /\ batch'.fetches # batch.fetches
           /\ batch'.got[batch'.fetches[Len(batch'.fetches)]].tag # "Quote" )
          => stocks' = stocks
      /\ ( /\ resp'.op = "stock_create" /\ nextStockId' # nextStockId
           /\ resp'.fetched.tag # "Quote" )
          => /\ stocks'[nextStockId] = StockForm_instance(resp'.form)
             /\ \A id \in DOMAIN stocks : stocks'[id] = stocks[id]
    ]_vars

\* a Stock with a known price whose fetch in the batch returned no Quote
C2_Witness ==
  /\ batch.pc = "loop"
  /\ \E pk \in DOMAIN batch.got :
       /\ batch.got[pk].tag = "None"
       /\ stocks[pk].current_price \notin {Null, 0}

PersistedEqualsQuote(stock, q) ==
  /\ stock.name = q.name
  /\ QuoteFieldsEqual(stock, q)

\* C3 as stated: creation and edit each fetch exactly once and store the
\* Quote's values.
C3_CreateAndEditSynchronize ==
  (resp.op \in {"stock_create", "stock_update"} /\ resp.status = 302) =>
    /\ resp.fetches = 1
    /\ resp.fetched.tag = "Quote" =>
         PersistedEqualsQuote(stocks[resp.id], resp.fetched)

\* C3 (amended): a stock creation with a valid form fetches exactly once
\* and, if a Quote is returned, the Stock it persists has the Quote's name,
\* current_price, change, change_percent, volume, high and low; a stock edit
\* fetches nothing and persists the submitted form fields.
C3_CreateSynchronizes ==
  /\ (resp.op = "stock_create" /\ resp.status \in {302, 500}) =>
       resp.fetches = 1
  /\ (resp.op = "stock_create" /\ resp.status = 302
        /\ resp.fetched.tag = "Quote") =>
       PersistedEqualsQuote(stocks[resp.id], resp.fetched)
  /\ resp.op = "stock_update" =>
       /\ resp.fetches = 0
       /\ resp.status = 302 =>
            stocks[resp.id] = StockForm_instance(resp.form)

\* a Stock created from a form with another name and price than the Quote's
C3_Witness ==
  /\ resp.op = "stock_create" /\ resp.status = 302
  /\ resp.fetched.tag = "Quote"
  /\ resp.form.current_price = 95 /\ resp.form.name # resp.fetched.name
  /\ stocks[resp.id].current_price = 120

NoSelector(req) ==
  /\ Lower(req.all) # "true"
  /\ ~ParamGiven(req.ids, Blank)
  /\ ~ParamGiven(req.symbols, "")

MalformedIds(req) == BadToken \in SeqRange(req.ids)

\* the Stocks the selector in force names: 'all' before 'ids' before
\* 'symbols'
SelectedBy(req, db) ==
  IF Lower(req.all) = "true" THEN DOMAIN db
  ELSE IF ParamGiven(req.ids, Blank)
    THEN {id \in DOMAIN db : Occurrences(req.ids, id) > 0}
  ELSE {id \in DOMAIN db :
          \E i \in 1..Len(req.symbols) :
            req.symbols[i] # "" /\ Upper(req.symbols[i]) = db[id].symbol}

Rejected ==
  /\ resp'.status \in 400..499
  /\ stocks' = stocks
  /\ batch' = batch
  /\ resp'.fetches = <<>>

\* C10 as stated: no selector, a malformed identifier list or an empty
\* selection is always answered by a client error and touches no Stock.
C10_BadSelectionRejected ==
  [][ ( /\ batch.pc = "idle" /\ resp'.op = "refresh" /\ resp' # resp
        /\ \/ NoSelector(resp'.req)
           \/ MalformedIds(resp'.req)
           \/ SelectedBy(resp'.req, stocks) = {} )
      => Rejected ]_vars

\* C10 (amended): a batch refresh is answered by a client error, and no
\* Stock is fetched or modified, whenever no selector is given, whenever the
\* identifier list is malformed and the 'all' flag is not set, or whenever
\* the resolved selection is empty.
C10_BadSelectionRejectedUnlessAll ==
  [][ ( /\ batch.pc = "idle" /\ resp'.op = "refresh" /\ resp' # resp
        /\ \/ NoSelector(resp'.req)
           \/ MalformedIds(resp'.req) /\ Lower(resp'.req.all) # "true"
           \/ SelectedBy(resp'.req, stocks) = {} )
      => Rejected ]_vars

\* a malformed identifier list rejected while the Stock it names exists
C10_Witness ==
  /\ resp.op = "refresh" /\ resp.status = 400
  /\ MalformedIds(resp.req)
  /\ 1 \in DOMAIN stocks
  /\ batch.pc = "idle"

(***************************************************************************)
(* Properties of the quote fetcher (SpecFetch).                            *)
(***************************************************************************)
\* C4: for a non-empty symbol and any answer of the provider,
\* fetch_stock_from_psx returns a Quote or None and never raises, and it
\* returns a Quote only for status 200 with the success flag set and a
\* price in the data.
C4_FetchNeverRaises ==
  (resp.op = "fetch_ajax" /\ resp.symbol # "") =>
    /\ resp.fetched.tag \in {"None", "Quote"}
    /\ resp.fetched.tag = "Quote" =>
         /\ resp.answer.kind = "response" /\ resp.answer.status = 200
         /\ resp.answer.success
         /\ resp.answer.data.price # Null

(***************************************************************************)
(* Properties of the trade valuation (SpecTrade).                          *)
(***************************************************************************)
TradeSaved(r) == r.op \in {"trade_create", "trade_update"} /\ r.status = 302

\* C5: the stored derived fields of a Trade change only in a save of that
\* Trade (a change of the Stock's price leaves them as they are), and right
\* after a save they are the formulas applied to the Trade's inputs and the
\* Stock's current_price of that moment.
C5_DerivedChangeOnlyOnSave ==
  [][ /\ \A t \in DOMAIN trades \cap DOMAIN trades' :
           Derived(trades'[t]) # Derived(trades[t]) =>
             TradeSaved(resp') /\ resp'.id = t
      /\ TradeSaved(resp') =>
           Derived(trades'[resp'.id]) =
             ComputeDerived(trades'[resp'.id],
                            stocks'[trades'[resp'.id].stock].current_price)
    ]_vars

\* after a refresh a Trade still holds the rate_difference and loss_recent
\* of the price it was saved at
C5_Witness ==
  /\ resp.op = "refresh" /\ resp.status = 200
  /\ \E t \in DOMAIN trades :
       /\ stocks[trades[t].stock].current_price = 120
       /\ trades[t].rate_difference = -20
       /\ trades[t].loss_recent = 200

\* C6 as stated: current_value, unrealized_pl and (on recomputation)
\* rate_difference are defined whenever the Stock's current_price is not
\* null, and undefined exactly when it is null.
C6_DefinedIffPricePresent ==
  \A t \in DOMAIN trades :
    LET tr == trades[t]
        p == stocks[tr.stock].current_price
    IN /\ p # Null =>
            /\ Trade_current_value(tr, stocks) = tr.quantity * p
            /\ Trade_unrealized_pl(tr, stocks) =
                 tr.quantity * p - tr.quantity * tr.buying_price
            /\ (TradeSaved(resp) /\ resp.id = t) =>
                 tr.rate_difference = p - tr.buying_price
       /\ p = Null =>
            /\ Trade_current_value(tr, stocks) = Null
            /\ Trade_unrealized_pl(tr, stocks) = Null
            /\ (TradeSaved(resp) /\ resp.id = t) => tr.rate_difference = Null

\* C6 (amended): for every Trade whose Stock has a current_price that is
\* neither null nor zero, current_value = quantity * current_price,
\* unrealized_pl = current_value - total_cost and, on recomputation,
\* rate_difference = current_price - buying_price are defined; they are
\* undefined exactly when the current_price is absent or zero.
C6_DefinedIffPriceNonZero ==
  \A t \in DOMAIN trades :
    LET tr == trades[t]
        p == stocks[tr.stock].current_price
    IN /\ (p # Null /\ p # 0) =>
            /\ Trade_current_value(tr, stocks) = tr.quantity * p
            /\ Trade_unrealized_pl(tr, stocks) =
                 tr.quantity * p - tr.quantity * tr.buying_price
            /\ (TradeSaved(resp) /\ resp.id = t) =>
                 tr.rate_difference = p - tr.buying_price
       /\ (p = Null \/ p = 0) =>
            /\ Trade_current_value(tr, stocks) = Null
            /\ Trade_unrealized_pl(tr, stocks) = Null
            /\ (TradeSaved(resp) /\ resp.id = t) => tr.rate_difference = Null

\* a Trade saved while its Stock's price is zero
C6_Witness ==
  /\ TradeSaved(resp)
  /\ stocks[trades[resp.id].stock].current_price = 0
  /\ trades[resp.id].rate_difference = Null

(***************************************************************************)
(* Properties of the portfolio report (SpecReport).                        *)
(***************************************************************************)
\* quantity * (current_price or 0) - quantity * buying_price
RankingValue(t) ==
  LET p == stocks[trades[t].stock].current_price
  IN trades[t].quantity * (IF p = Null THEN 0 ELSE p)
       - trades[t].quantity * trades[t].buying_price

\* the user's holdings after the case-insensitive exact symbol filter
FilteredHoldings(user, stock_filter) ==
  {t \in DOMAIN trades :
     /\ trades[t].user = user
     /\ \/ stock_filter = ""
        \/ Upper(stocks[trades[t].stock].symbol) = Upper(stock_filter)}

ExpectedTotalCost(H) ==
  SumOf([t \in H |-> trades[t].quantity * trades[t].buying_price], H)

\* the sum over the holdings whose Stock has a current price
ExpectedTotalValue(H) ==
  LET Q == {t \in H : stocks[trades[t].stock].current_price # Null}
  IN SumOf([t \in Q |->
              trades[t].quantity * stocks[trades[t].stock].current_price], Q)

TotalsAsSpecified(r) ==
  LET H == FilteredHoldings(r.user, r.stock_filter)
      cost == ExpectedTotalCost(H)
      value == ExpectedTotalValue(H)
  IN /\ SeqRange(r.holdings) = H
     /\ Len(r.holdings) = Cardinality(H)
     /\ r.total_cost = cost
     /\ r.total_value = value
     /\ r.unrealized_pl = value - cost
     /\ r.pl_percentage =
          IF cost # 0 THEN RoundHalfEven(10000 * (value - cost), cost) ELSE 0
     /\ r.active_trades = Cardinality(H)

\* C7: the report with sort key 'profit' returns the user's filtered
\* holdings by descending quantity * (current_price or 0) - quantity *
\* buying_price, together with the totals.
C7_ProfitViewDescending ==
  (resp.op = "portfolio" /\ resp.sort_by = "profit") =>
    /\ resp.status = 200
    /\ \A i, j \in 1..Len(resp.holdings) :
         i < j =>
           RankingValue(resp.holdings[i]) >= RankingValue(resp.holdings[j])
    /\ TotalsAsSpecified(resp)

\* C8: in a report sorted by 'profit' or 'loss' the ranking value of every
\* holding is quantity * (current_price or 0) - quantity * buying_price,
\* also for a holding whose Stock has no price, and the 'loss' view is in
\* ascending order of that value.
C8_RankingCountsMissingPriceAsZero ==
  (resp.op = "portfolio" /\ resp.sort_by \in {"profit", "loss"}
     /\ resp.status = 200) =>
    /\ \A t \in SeqRange(resp.holdings) :
         resp.pl[t] # Null /\ resp.pl[t] = RankingValue(t)
    /\ resp.sort_by = "loss" =>
         \A i, j \in 1..Len(resp.holdings) :
           i < j =>
             RankingValue(resp.holdings[i]) <= RankingValue(resp.holdings[j])

C11_SymbolsUppercaseAndUnique ==
  /\ \A id \in DOMAIN stocks : stocks[id].symbol = Upper(stocks[id].symbol)
  /\ \A i, j \in DOMAIN stocks :
       i # j => stocks[i].symbol # stocks[j].symbol

\* a step of the batch refresh that stored a Quote for the Stock pk
RefreshedByQuote(pk) ==
  /\ batch.pc = "loop"
  /\ pk \in batch.pending
  /\ batch'.pc = "loop"
  /\ pk \in DOMAIN batch'.got
  /\ batch'.got[pk].tag = "Quote"

\* C12: the symbol of a Stock never changes after its creation, and the
\* fields of a Stock change only when a refresh stores a Quote for it; a
\* stock edit changes neither the symbol nor the current_price.
C12_StockChangedOnlyByRefresh ==
  [][ \A pk \in DOMAIN stocks \cap DOMAIN stocks' :
        /\ stocks'[pk].symbol = stocks[pk].symbol
        /\ stocks'[pk] # stocks[pk] => RefreshedByQuote(pk)
    ]_vars

(***************************************************************************)
(* Properties of the recomputation (SpecRecompute).                        *)
(***************************************************************************)
\* a price field is set: neither null nor zero
IsSet(x) == x # Null /\ x # 0

SavedTrade == trades[resp.id]

SavedPrice == stocks[trades[resp.id].stock].current_price

\* C13: after a save pl_ratio is undefined whenever buying_price - msl <= 0,
\* also with mtp and msl both set; with mtp, msl and buying_price set and
\* buying_price - msl > 0 it is round((mtp - buying_price) /
\* (buying_price - msl), 2); it is undefined when one of the three is unset.
C13_PlRatio ==
  TradeSaved(resp) =>
    LET t == SavedTrade
    IN /\ (t.msl # Null /\ t.buying_price - t.msl <= 0) => t.pl_ratio = Null
       /\ ( /\ IsSet(t.mtp) /\ IsSet(t.msl) /\ IsSet(t.buying_price)
            /\ t.buying_price - t.msl > 0 )
          => t.pl_ratio = RoundHalfEven(100 * (t.mtp - t.buying_price),
                                        t.buying_price - t.msl)
       /\ (~IsSet(t.mtp) \/ ~IsSet(t.msl) \/ ~IsSet(t.buying_price))
          => t.pl_ratio = Null

\* a trade saved with target and stop both set and the stop above the
\* buying price
C13_Witness ==
  /\ TradeSaved(resp)
  /\ SavedTrade.mtp = 130 /\ SavedTrade.msl = 110
  /\ SavedTrade.buying_price = 100
  /\ SavedTrade.pl_ratio = Null

\* C14: after a save loss_recent is defined exactly when msl is set, the
\* Stock has a current price (neither null nor zero) and that price is below
\* buying_price; it is then (buying_price - current price) * quantity,
\* whether or not the price has reached msl, and it is undefined whenever
\* the price is at or above buying_price.
C14_LossRecent ==
  TradeSaved(resp) =>
    LET t == SavedTrade
        p == SavedPrice
        dip == IsSet(t.msl) /\ IsSet(p) /\ p < t.buying_price
    IN /\ dip => t.loss_recent = (t.buying_price - p) * t.quantity
       /\ ~dip => t.loss_recent = Null
       /\ (IsSet(p) /\ p >= t.buying_price) => t.loss_recent = Null

\* C14 as stated, reading "a current price exists" as "the price is not
\* null": after a save loss_recent is defined exactly when msl is set, the
\* Stock's price is present and below buying_price, and is then
\* (buying_price - current price) * quantity.
C14_LossRecentWhenPricePresent ==
  TradeSaved(resp) =>
    LET t == SavedTrade
        p == SavedPrice
        dip == IsSet(t.msl) /\ p # Null /\ p < t.buying_price
    IN /\ dip => t.loss_recent = (t.buying_price - p) * t.quantity
       /\ ~dip => t.loss_recent = Null

\* a trade saved while the price is below the buying price and above the
\* stop
C14_Witness ==
  /\ TradeSaved(resp)
  /\ SavedTrade.msl = 20 /\ SavedTrade.buying_price = 100
  /\ SavedPrice = 80
  /\ SavedTrade.loss_recent = 200

\* C15: after a save with mtp set and buying_price 0, profit_percent is
\* undefined and profit_expected is (mtp - buying_price) * quantity; with
\* mtp unset both are undefined.
C15_ProfitPercent ==
  TradeSaved(resp) =>
    LET t == SavedTrade
    IN /\ (IsSet(t.mtp) /\ t.buying_price = 0) =>
            /\ t.profit_percent = Null
            /\ t.profit_expected = (t.mtp - t.buying_price) * t.quantity
       /\ ~IsSet(t.mtp) =>
            /\ t.profit_percent = Null
            /\ t.profit_expected = Null

\* a trade saved with a target and a buying price of zero
C15_Witness ==
  /\ TradeSaved(resp)
  /\ SavedTrade.mtp = 130 /\ SavedTrade.buying_price = 0
  /\ SavedTrade.profit_percent = Null
  /\ SavedTrade.profit_expected = 1300

\* C16: a Trade saved again right after a save, with the same quantity,
\* buying_price, mtp and msl and the same price of the Stock, has the same
\* derived fields after the second save as after the first.
C16_SaveIdempotent ==
  [][ ( /\ TradeSaved(resp)
        /\ resp'.op = "trade_update" /\ resp'.status = 302
        /\ resp'.id = resp.id
        /\ resp'.same_inputs
        /\ stocks' = stocks )
      => Derived(trades'[resp'.id]) = Derived(trades[resp.id]) ]_vars

\* a Trade with every derived field defined, saved again as it is
C16_Witness ==
  /\ resp.op = "trade_update" /\ resp.status = 302
  /\ resp.same_inputs
  /\ \A k \in DerivedFields : trades[resp.id][k] # Null

(***************************************************************************)
(* Properties of the trade requests (SpecOwner).                           *)
(***************************************************************************)
\* C17: an update or delete request for a Trade identifier that does not
\* exist or belongs to another user is answered 404 and leaves every Trade
\* as it is; a trade request changes or removes a Trade only when it is a
\* request of the Trade's owner for that Trade.
C17_OnlyOwnerChangesTrade ==
  [][ /\ ( /\ resp'.op \in {"trade_update", "trade_delete"}
           /\ ~(resp'.id \in DOMAIN trades
                  /\ trades[resp'.id].user = resp'.user) )
         => (resp'.status = 404 /\ trades' = trades)
      /\ \A pk \in DOMAIN trades :
           ( /\ resp'.op \in {"trade_create", "trade_update", "trade_delete"}
             /\ (pk \notin DOMAIN trades' \/ trades'[pk] # trades[pk]) )
           => ( /\ resp'.op \in {"trade_update", "trade_delete"}
                /\ resp'.id = pk
                /\ resp'.user = trades[pk].user ) ]_vars

\* a delete request for another user's Trade, answered 404, the Trade still
\* there
C17_Witness ==
  /\ resp.op = "trade_delete" /\ resp.status = 404
  /\ resp.id \in DOMAIN trades
  /\ trades[resp.id].user # resp.user

\* the form carries a non-positive quantity or a negative price
BadValues(f) ==
  \/ f.quantity # Null /\ f.quantity <= 0
  \/ f.buying_price # Null /\ f.buying_price < 0
  \/ f.mtp # Null /\ f.mtp < 0
  \/ f.msl # Null /\ f.msl < 0

\* C18: a trade create or update request with a non-positive quantity or a
\* negative buying_price, mtp or msl is not accepted and leaves the store
\* unchanged, and every persisted Trade has quantity > 0, buying_price >= 0
\* and mtp, msl each null or >= 0.
C18_BadValuesRejected ==
  [][ /\ ( /\ resp'.op \in {"trade_create", "trade_update"}
           /\ BadValues(resp'.form) )
         => (resp'.status # 302 /\ trades' = trades)
      /\ \A pk \in DOMAIN trades' :
           /\ trades'[pk].quantity > 0
           /\ trades'[pk].buying_price >= 0
           /\ trades'[pk].mtp = Null \/ trades'[pk].mtp >= 0
           /\ trades'[pk].msl = Null \/ trades'[pk].msl >= 0 ]_vars

\* an edit of one's own Trade with a quantity of zero, answered with the
\* form again
C18_Witness ==
  /\ resp.op = "trade_update" /\ resp.status = 200
  /\ resp.form.quantity = 0
  /\ resp.id \in DOMAIN trades
  /\ trades[resp.id].user = resp.user
  /\ trades[resp.id].quantity > 0

(***************************************************************************)
(* Properties of the interrupted batch (SpecCrash).                        *)
(***************************************************************************)
\* the Stock got a Quote with a price and storing it did not fail
QuoteStored(q) == UpdateSucceeded(q) /\ q.price # Null

\* what the database must hold when the batch has processed 'got' and has
\* 'pending' left, having started from 'before'
PartialBatch(db, before, selected, pending, got) ==
  /\ DOMAIN db = DOMAIN before
  /\ \A pk \in DOMAIN db :
       IF pk \in selected \ pending /\ QuoteStored(got[pk])
         THEN /\ QuoteFieldsEqual(db[pk], got[pk])
              /\ db[pk].symbol = before[pk].symbol
              /\ db[pk].name = before[pk].name
         ELSE db[pk] = before[pk]

\* C19: at every point of the batch loop, and after a crash at that point,
\* each processed Stock that got a Quote holds the Quote's fields and every
\* other Stock (not yet processed, without a Quote, or not selected) is as
\* it was when the batch began; a pass of the loop changes no Stock but the
\* one it processes.
C19_CrashKeepsProcessedUpdates ==
  [][ /\ batch'.pc = "loop" =>
           PartialBatch(stocks', batch'.before, batch'.selected,
                        batch'.pending, batch'.got)
      /\ resp'.op = "crash" =>
           PartialBatch(stocks', resp'.before, resp'.selected,
                        resp'.pending, resp'.got)
      /\ (batch.pc = "loop" /\ batch'.pc = "loop") =>
           \A pk \in DOMAIN stocks :
             pk \notin batch.pending \ batch'.pending
               => stocks'[pk] = stocks[pk] ]_vars

\* a crash after one of two selected Stocks was processed: the processed one
\* holds the quoted price, the other one its old price
C19_Witness ==
  /\ resp.op = "crash"
  /\ \E pk \in resp.selected \ resp.pending, other \in resp.pending :
       /\ QuoteStored(resp.got[pk])
       /\ resp.before[pk].current_price # resp.got[pk].price
       /\ stocks[pk].current_price = resp.got[pk].price
       /\ stocks[other] = resp.before[other]

====
